---- MODULE Spec2Model ----
(***************************************************************************)
(* Hierarchical config merging (config_merger.py).                         *)
(*                                                                         *)
(* Three state machines share the variables of this module:                *)
(*   SpecMerge  _deep_merge applied to two parsed mappings (and applied    *)
(*              once more with the same override);                         *)
(*   SpecDepth  merge_configs_by_depth: the grouping, then for each depth  *)
(*              group its collision check and its fold;                    *)
(*   SpecFind   find_yaml_files_in_hierarchy, one step per directory that  *)
(*              os.walk yields.                                            *)
(* Python dicts and lists are objects on a heap (addresses are indexes of  *)
(* the sequence heap): a dict keeps its keys in insertion order, a copy is *)
(* shallow, and an assignment result[key] = value writes one object.       *)
(***************************************************************************)
EXTENDS Integers, Sequences, FiniteSets, TLC

VARIABLES
    pc,              \* position of the running function
    heap,            \* the dict and list objects, by address
    heap0,           \* the heap as it was when the function was called
    base,            \* _deep_merge: argument base (a dict value)
    override,        \* _deep_merge: argument override (a dict value)
    result,          \* _deep_merge: the value returned by the first call
    result2,         \* _deep_merge: the value returned by the second call
    configs,         \* merge_configs_by_depth: argument, <<file_path, config>> in insertion order
    depth_groups,    \* merge_configs_by_depth: depth -> sequence of <<file_path, config>>
    depths,          \* merge_configs_by_depth: the depths still to process, ascending
    depth,           \* merge_configs_by_depth: the depth being processed
    all_keys_at_depth,
    key_sources,
    merged_config,
    errors,
    folded,          \* history: the file paths folded so far, in fold order
    fsDirs,          \* filesystem: the directories (resolved absolute paths)
    fsFiles,         \* filesystem: the regular files, <<directory, name>>
    base_dir,        \* find_yaml_files_in_hierarchy: resolved base_dir
    target_path,     \* find_yaml_files_in_hierarchy: resolved target_path
    target_parts,
    stack,           \* os.walk: directories still to yield, next one first
    visited,         \* history: directories os.walk has yielded
    yaml_files,
    raised,          \* the exception that ended the call, or "none"
    fsDocs,          \* filesystem: what each config file holds, by file path
    todo,            \* parse_yaml_configs: the files the loop has still to take
    parsed,          \* parse_yaml_configs: its dict configs, <<file_path, config>> in insertion order
    open_files,      \* the files that are open
    opened,          \* history: the files opened so far, in order
    ret,             \* merge_hierarchical_configs: the pair it returned
    calls            \* parallel calls: the local state of each call

mergeVars == <<base, override, result, result2>>
depthVars == <<configs, depth_groups, depths, depth, all_keys_at_depth,
               key_sources, merged_config, errors, folded>>
findVars  == <<fsDirs, fsFiles, base_dir, target_path, target_parts, stack,
               visited, yaml_files, raised>>
pipeVars  == <<fsDocs, todo, parsed, open_files, opened, ret>>
callVars  == <<calls>>
vars == <<pc, heap, heap0, mergeVars, depthVars, findVars, pipeVars, callVars>>

(***************************************************************************)
(* Bounds.                                                                 *)
(***************************************************************************)
\* _deep_merge inputs: key entries of base and override together, nested ones counted
MaxEntries == 4
\* merge_configs_by_depth inputs: the files, and the key entries of all files together
MaxFiles == 3
MaxFileEntries == 3
\* find_yaml_files_in_hierarchy inputs: the directories below base, and the
\* components of the target below base
MaxDirs == 3
MaxTargetDepth == 2
\* merge_configs_by_depth inputs made for the order of the diagnostics (files
\* with flat documents) and for the fold over one key (files with nested ones)
MaxEmitFiles == 4
MaxOverrideFiles == 3

Keys == {"a", "b"}
KeySeq == <<"a", "b">>
\* the orders in which a document may list its keys
KeyOrders == {<<"a", "b">>, <<"b", "a">>}

None == [t |-> "none"]
NoError == [type |-> "none", message |-> "none"]

(***************************************************************************)
(* Structured values.  A document decodes to a tree: a scalar, null, a     *)
(* list or a mapping.  On the heap a mapping or list value is a reference. *)
(***************************************************************************)
Scalar(n) == [t |-> "scalar", v |-> n]
Null == [t |-> "null"]
ListTree(items) == [t |-> "list", items |-> items]
DictTree(m) == [t |-> "dict", m |-> m]
DictRef(a) == [t |-> "dict", a |-> a]
ListRef(a) == [t |-> "list", a |-> a]
DictObj(ks, m) == [kind |-> "dict", ks |-> ks, m |-> m]
ListObj(items) == [kind |-> "list", items |-> items]

IsDict(v) == v.t = "dict"

\* the non-mapping values of the document with label l (its scalars are l)
Leaves(l) == {Scalar(l), Null, ListTree(<<Scalar(l)>>)}

RECURSIVE DictsOver(_, _, _)
\* the mappings over the keys KeySeq[i..] that hold exactly n entries, nested
\* entries counted, and whose non-mapping values are in leaves, as functions
\* key -> tree
DictsOver(i, n, leaves) ==
    IF i > Len(KeySeq) THEN (IF n = 0 THEN {<<>>} ELSE {})
    ELSE DictsOver(i + 1, n, leaves) \cup
         UNION { { (KeySeq[i] :> v) @@ rest :
                     v \in (IF c = 1 THEN leaves ELSE {}) \cup
                           { DictTree(d) : d \in DictsOver(1, c - 1, leaves) },
                     rest \in DictsOver(i + 1, n - c, leaves) } : c \in 1..n }

DictTrees(n, leaves) == { DictTree(d) : d \in DictsOver(1, n, leaves) }

\* the keys of a mapping in document order ord
OrderedKeys(S, ord) == SelectSeq(ord, LAMBDA k : k \in S)

RECURSIVE Alloc(_, _, _), AllocEntries(_, _, _, _, _)
\* yaml.safe_load builds fresh objects: the tree's objects are appended to the heap
Alloc(h, tree, ord) ==
    CASE tree.t = "dict" ->
           LET ks == OrderedKeys(DOMAIN tree.m, ord)
               sub == AllocEntries(h, tree, ord, ks, 1)
           IN  [h |-> Append(sub.h, DictObj(ks, sub.m)), v |-> DictRef(Len(sub.h) + 1)]
      [] tree.t = "list" ->
           [h |-> Append(h, ListObj(tree.items)), v |-> ListRef(Len(h) + 1)]
      [] OTHER -> [h |-> h, v |-> tree]

AllocEntries(h, tree, ord, ks, i) ==
    IF i > Len(ks) THEN [h |-> h, m |-> <<>>]
    ELSE LET one == Alloc(h, tree.m[ks[i]], ord)
             rest == AllocEntries(one.h, tree, ord, ks, i + 1)
         IN  [h |-> rest.h, m |-> (ks[i] :> one.v) @@ rest.m]

RECURSIVE Val(_, _)
\* the tree a heap value stands for; Python's == on dicts ignores key order
Val(h, v) ==
    CASE v.t = "dict" ->
           DictTree([k \in DOMAIN h[v.a].m |-> Val(h, h[v.a].m[k])])
      [] v.t = "list" -> ListTree(h[v.a].items)
      [] OTHER -> v

(***************************************************************************)
(* _deep_merge                                                             *)
(***************************************************************************)
\* a merge that works on base itself instead of a copy
CopyNone(h, a) == [h |-> h, r |-> a]

\* result = base.copy(): a new dict object holding the same keys and values
CopyDict(h, a) == [h |-> Append(h, h[a]), r |-> Len(h) + 1]

\* result[key] = value
SetItem(h, a, key, value) ==
    [h EXCEPT ![a] =
        IF key \in DOMAIN h[a].m
        THEN DictObj(h[a].ks, [h[a].m EXCEPT ![key] = value])
        ELSE DictObj(Append(h[a].ks, key), (key :> value) @@ h[a].m)]

\* a merge that never descends into nested dictionaries
BothDictsNever(h, r, key, value) == FALSE

\* the test of lines 159-161
BothDicts(h, r, key, value) ==
    /\ key \in DOMAIN h[r].m
    /\ h[r].m[key].t = "dict"
    /\ value.t = "dict"

\* a merge that extends a list of base by the list of override
OverrideExtendLists(h, r, key, value) ==
    IF /\ key \in DOMAIN h[r].m
       /\ h[r].m[key].t = "list"
       /\ value.t = "list"
    THEN SetItem(Append(h, ListObj(h[h[r].m[key].a].items \o h[value.a].items)),
                 r, key, ListRef(Len(h) + 1))
    ELSE SetItem(h, r, key, value)

\* a merge in which a key that base already holds keeps base's value
OverrideKeepBase(h, r, key, value) ==
    IF key \in DOMAIN h[r].m THEN h ELSE SetItem(h, r, key, value)

\* a merge in which a non-mapping value never replaces a mapping of base
OverrideKeepMapping(h, r, key, value) ==
    IF key \in DOMAIN h[r].m /\ h[r].m[key].t = "dict" /\ value.t # "dict"
    THEN h
    ELSE SetItem(h, r, key, value)

\* line 166: the override's value replaces whatever base holds
Override(h, r, key, value) == SetItem(h, r, key, value)

RECURSIVE DeepMerge(_, _, _), MergeItems(_, _, _, _)
\* _deep_merge(base, override) on the dict objects at addresses b and o:
\* the heap after the call and the address of the returned dict
DeepMerge(h, b, o) ==
    LET c == CopyDict(h, b) IN MergeItems(c.h, c.r, o, 1)

\* the loop over override.items(), from its i-th item on
MergeItems(h, r, o, i) ==
    IF i > Len(h[o].ks) THEN [h |-> h, r |-> r]
    ELSE LET key == h[o].ks[i]
             value == h[o].m[key]
         IN  IF BothDicts(h, r, key, value)
             THEN LET sub == DeepMerge(h, h[r].m[key].a, value.a)
                  IN  MergeItems(SetItem(sub.h, r, key, DictRef(sub.r)), r, o, i + 1)
             ELSE MergeItems(Override(h, r, key, value), r, o, i + 1)

idleDepth ==
    /\ configs = <<>> /\ depth_groups = <<>> /\ depths = <<>> /\ depth = 0
    /\ all_keys_at_depth = {} /\ key_sources = <<>>
    /\ merged_config = None /\ errors = <<>> /\ folded = <<>>

idleFind ==
    /\ fsDirs = {} /\ fsFiles = {} /\ base_dir = <<>> /\ target_path = <<>>
    /\ target_parts = <<>> /\ stack = <<>> /\ visited = <<>> /\ yaml_files = <<>>
    /\ raised = NoError

idleMerge == base = None /\ override = None /\ result = None /\ result2 = None

idlePipe ==
    /\ fsDocs = <<>> /\ todo = <<>> /\ parsed = <<>> /\ open_files = {}
    /\ opened = <<>> /\ ret = None

idleCalls == calls = <<>>

\* two freshly parsed mappings, or one mapping passed as both arguments
InitMerge ==
    /\ pc = "merge_start"
    /\ \E ord \in KeyOrders, na \in 0..MaxEntries :
         \E A \in DictTrees(na, Leaves(1)) :
            LET pa == Alloc(<<>>, A, ord) IN
            \/ \E nb \in 0..(MaxEntries - na) : \E B \in DictTrees(nb, Leaves(2)) :
                 LET pb == Alloc(pa.h, B, ord) IN
                 /\ heap = pb.h /\ base = pa.v /\ override = pb.v
            \/ heap = pa.h /\ base = pa.v /\ override = pa.v
    /\ heap0 = heap
    /\ result = None /\ result2 = None
    /\ idleDepth /\ idleFind /\ idlePipe /\ idleCalls

\* result = _deep_merge(base, override)
CallDeepMerge ==
    /\ pc = "merge_start"
    /\ LET r == DeepMerge(heap, base.a, override.a) IN
         /\ heap' = r.h
         /\ result' = DictRef(r.r)
    /\ pc' = "merge_once"
    /\ UNCHANGED <<heap0, base, override, result2, depthVars, findVars, pipeVars, callVars>>

\* result2 = _deep_merge(result, override)
CallDeepMergeAgain ==
    /\ pc = "merge_once"
    /\ LET r == DeepMerge(heap, result.a, override.a) IN
         /\ heap' = r.h
         /\ result2' = DictRef(r.r)
    /\ pc' = "merge_twice"
    /\ UNCHANGED <<heap0, base, override, result, depthVars, findVars, pipeVars, callVars>>

NextMerge == CallDeepMerge \/ CallDeepMergeAgain

SpecMerge == InitMerge /\ [][NextMerge]_vars

(***************************************************************************)
(* merge_configs_by_depth                                                  *)
(***************************************************************************)
\* A file path string is the sequence of its segments, "/" first when it
\* is absolute.  Path(file_path).parts drops "." and empty segments.
PathParts(p) == SelectSeq(p, LAMBDA c : c # "." /\ c # "")

\* a depth that counts the segments of the string, "." included
DepthOfSegments(p) == Len(p)

\* line 118
DepthOf(p) == Len(PathParts(p))

FileNames == <<"c1.yaml", "c2.yaml", "c3.yaml", "c4.yaml", "c5.yaml">>
\* the directories file i may lie in: a shallow one and a deeper one; files of
\* even i lie in a tree unrelated to that of the files of odd i
ShallowDir(i) == IF i % 2 = 1 THEN <<"/", "base">> ELSE <<"/", "other">>
DeepDir(i) == IF i % 2 = 1 THEN <<"/", "base", "x">> ELSE <<"/", "other", ".", "y">>
\* the non-mapping values of file i are of one kind, which goes with i, and
\* tell the file; so does the order in which the file lists its keys
FileLeaves(i) ==
    CASE i % 3 = 1 -> {Scalar(i)}
      [] i % 3 = 2 -> {ListTree(<<Scalar(i)>>)}
      [] OTHER -> {Null}
FileKeyOrder(i) == IF i % 2 = 1 THEN <<"a", "b">> ELSE <<"b", "a">>

RECURSIVE Contents(_, _, _)
\* the documents of files i..n, file j labelled j, of at most e entries together
Contents(i, n, e) ==
    IF i > n THEN {<<>>}
    ELSE UNION { { <<t>> \o rest : t \in DictTrees(c, FileLeaves(i)), rest \in Contents(i + 1, n, e - c) }
                 : c \in 0..e }

RECURSIVE AllocAll(_, _, _)
\* the parsed documents, each of fresh objects: the heap and the dict values
AllocAll(h, trees, i) ==
    IF i > Len(trees) THEN [h |-> h, vs |-> <<>>]
    ELSE LET one == Alloc(h, trees[i], FileKeyOrder(i))
             rest == AllocAll(one.h, trees, i + 1)
         IN  [h |-> rest.h, vs |-> <<one.v>> \o rest.vs]

InitDepth ==
    /\ pc = "depth_start"
    /\ \E n \in 0..MaxFiles :
         \E all \in { AllocAll(<<>>, trees, 1) : trees \in Contents(1, n, MaxFileEntries) },
            dirs \in [1..n -> {"shallow", "deep"}] :
            /\ heap = all.h
            /\ configs = [i \in 1..n |->
                 [path |-> (IF dirs[i] = "shallow" THEN ShallowDir(i) ELSE DeepDir(i))
                           \o <<FileNames[i]>>,
                  cfg |-> all.vs[i]]]
    /\ heap0 = heap
    /\ depth_groups = <<>> /\ depths = <<>> /\ depth = 0
    /\ all_keys_at_depth = {} /\ key_sources = <<>>
    /\ merged_config = None /\ errors = <<>> /\ folded = <<>>
    /\ idleMerge /\ idleFind /\ idlePipe /\ idleCalls

RECURSIVE SortedSeq(_)
\* sorted(depth_groups.keys())
SortedSeq(S) ==
    IF S = {} THEN <<>>
    ELSE LET lo == CHOOSE x \in S : \A y \in S : x <= y
         IN  <<lo>> \o SortedSeq(S \ {lo})

RECURSIVE FirstSeenSeq(_, _)
\* the depths in the order in which depth_groups first received them
FirstSeenSeq(cs, seen) ==
    IF cs = <<>> THEN <<>>
    ELSE LET d == DepthOf(Head(cs).path)
         IN  IF d \in seen THEN FirstSeenSeq(Tail(cs), seen)
             ELSE <<d>> \o FirstSeenSeq(Tail(cs), seen \cup {d})

\* a fold that takes the depth groups as the dictionary lists them
DepthOrderUnsorted(cs) == FirstSeenSeq(cs, {})

\* line 125: the order in which the depth groups are processed
DepthOrder(cs) == SortedSeq({ DepthOf(cs[i].path) : i \in 1..Len(cs) })

RECURSIVE Reverse(_)
Reverse(q) == IF q = <<>> THEN <<>> ELSE Append(Reverse(Tail(q)), Head(q))

\* a grouping that puts each file in front of its group
GroupOfReversed(cs, d) == Reverse(SelectSeq(cs, LAMBDA c : DepthOf(c.path) = d))

\* lines 113-119: the files of depth d, in the order of configs
GroupOf(cs, d) == SelectSeq(cs, LAMBDA c : DepthOf(c.path) = d)

\* the empty dict literal {}
NewDict(h) == [h |-> Append(h, DictObj(<<>>, <<>>)), v |-> DictRef(Len(h) + 1)]

\* lines 109-110
ReturnEmpty ==
    /\ pc = "depth_start"
    /\ configs = <<>>
    /\ LET d == NewDict(heap) IN heap' = d.h /\ merged_config' = d.v
    /\ errors' = <<>>
    /\ pc' = "depth_returned"
    /\ UNCHANGED <<heap0, configs, depth_groups, depths, depth,
                   all_keys_at_depth, key_sources, folded, mergeVars, findVars, pipeVars, callVars>>

\* lines 112-122, and the evaluation of sorted(...) of line 125
GroupConfigs ==
    /\ pc = "depth_start"
    /\ configs # <<>>
    /\ depths' = DepthOrder(configs)
    /\ depth_groups' = [d \in { DepthOf(configs[i].path) : i \in 1..Len(configs) } |->
                           GroupOf(configs, d)]
    /\ LET d == NewDict(heap) IN heap' = d.h /\ merged_config' = d.v
    /\ errors' = <<>>
    /\ pc' = "depth_loop"
    /\ UNCHANGED <<heap0, configs, depth, all_keys_at_depth, key_sources,
                   folded, mergeVars, findVars, pipeVars, callVars>>

\* a detector that keeps the keys seen in the shallower groups
KeepKeys(keys, sources) == [keys |-> keys, sources |-> sources]

\* lines 129-130: the key bookkeeping a depth group starts with
FreshKeys(keys, sources) == [keys |-> {}, sources |-> <<>>]

\* lines 125-130: the next depth group
NextDepth ==
    /\ pc = "depth_loop"
    /\ depths # <<>>
    /\ depth' = Head(depths)
    /\ depths' = Tail(depths)
    /\ LET f == FreshKeys(all_keys_at_depth, key_sources) IN
         all_keys_at_depth' = f.keys /\ key_sources' = f.sources
    /\ pc' = "depth_check"
    /\ UNCHANGED <<heap, heap0, configs, depth_groups, merged_config, errors,
                   folded, mergeVars, findVars, pipeVars, callVars>>

Diagnostic(d, key, existing_source, file_path) ==
    [depth |-> d, key |-> key, existing |-> existing_source, file |-> file_path]

\* a detector that blames the latest file seen with the key
SeeKeyRolling(st, d, key, file_path) ==
    IF key \in st.keys
    THEN [keys |-> st.keys,
          sources |-> [st.sources EXCEPT ![key] = file_path],
          errs |-> Append(st.errs, Diagnostic(d, key, st.sources[key], file_path))]
    ELSE [keys |-> st.keys \cup {key},
          sources |-> (key :> file_path) @@ st.sources,
          errs |-> st.errs]

\* a detector that puts each diagnostic in front of the list
SeeKeyPrepends(st, d, key, file_path) ==
    IF key \in st.keys
    THEN [keys |-> st.keys,
          sources |-> st.sources,
          errs |-> <<Diagnostic(d, key, st.sources[key], file_path)>> \o st.errs]
    ELSE [keys |-> st.keys \cup {key},
          sources |-> (key :> file_path) @@ st.sources,
          errs |-> st.errs]

\* lines 134-140: one key of one file
SeeKey(st, d, key, file_path) ==
    IF key \in st.keys
    THEN [keys |-> st.keys,
          sources |-> st.sources,
          errs |-> Append(st.errs, Diagnostic(d, key, st.sources[key], file_path))]
    ELSE [keys |-> st.keys \cup {key},
          sources |-> (key :> file_path) @@ st.sources,
          errs |-> st.errs]

RECURSIVE SeeKeys(_, _, _, _, _)
\* line 133: the loop over config.keys(), from its i-th key on
SeeKeys(st, d, ks, i, file_path) ==
    IF i > Len(ks) THEN st
    ELSE SeeKeys(SeeKey(st, d, ks[i], file_path), d, ks, i + 1, file_path)

RECURSIVE SeeFilesIn(_, _, _, _, _)
\* line 132: the loop over depth_configs, from its i-th file on, the configs
\* being objects of heap h
SeeFilesIn(h, st, d, group, i) ==
    IF i > Len(group) THEN st
    ELSE SeeFilesIn(h, SeeKeys(st, d, h[group[i].cfg.a].ks, 1, group[i].path),
                    d, group, i + 1)

SeeFiles(st, d, group, i) == SeeFilesIn(heap, st, d, group, i)

\* line 133: config.keys() is there for a dict; a list or a scalar has none
HasKeys(v) == v.t = "dict"

AttributeError == [type |-> "AttributeError", message |-> "object has no attribute 'keys'"]

\* the files of group before the first whose config has no keys()
KeyedPrefix(group) ==
    LET bad == { i \in 1..Len(group) : ~HasKeys(group[i].cfg) }
    IN  IF bad = {} THEN group
        ELSE SubSeq(group, 1, (CHOOSE i \in bad : \A j \in bad : i <= j) - 1)

\* lines 132-140: the collision check of the current depth group; it ends
\* with an AttributeError at the first config that is not a dict
CheckGroup ==
    /\ pc = "depth_check"
    /\ LET group == depth_groups[depth]
           st == SeeFiles([keys |-> all_keys_at_depth, sources |-> key_sources,
                           errs |-> errors],
                          depth, KeyedPrefix(group), 1)
       IN  /\ all_keys_at_depth' = st.keys
           /\ key_sources' = st.sources
           /\ errors' = st.errs
           /\ IF KeyedPrefix(group) = group
              THEN pc' = "depth_fold" /\ raised' = raised
              ELSE pc' = "depth_raised" /\ raised' = AttributeError
    /\ UNCHANGED <<heap, heap0, configs, depth_groups, depths, depth,
                   merged_config, folded, mergeVars, fsDirs, fsFiles, base_dir,
                   target_path, target_parts, stack, visited, yaml_files,
                   pipeVars, callVars>>

\* the top-level keys of the files of group before the i-th
KeysBefore(h, group, i) == UNION { DOMAIN h[group[j].cfg.a].m : j \in 1..(i - 1) }

RECURSIVE FoldFilesSkipCollisions(_, _, _, _)
\* a fold that leaves out a file with a key an earlier file of the group has
FoldFilesSkipCollisions(h, m, group, i) ==
    IF i > Len(group) THEN [h |-> h, r |-> m]
    ELSE IF DOMAIN h[group[i].cfg.a].m \cap KeysBefore(h, group, i) # {}
         THEN FoldFilesSkipCollisions(h, m, group, i + 1)
         ELSE LET one == DeepMerge(h, m, group[i].cfg.a)
              IN  FoldFilesSkipCollisions(one.h, one.r, group, i + 1)

RECURSIVE FoldFilesFromEmpty(_, _, _, _)
\* a fold that merges each file into an empty mapping, not the running result
FoldFilesFromEmpty(h, m, group, i) ==
    IF i > Len(group) THEN [h |-> h, r |-> m]
    ELSE LET e == Append(h, DictObj(<<>>, <<>>))
             one == DeepMerge(e, Len(e), group[i].cfg.a)
         IN  FoldFilesFromEmpty(one.h, one.r, group, i + 1)

RECURSIVE FoldFiles(_, _, _, _)
\* line 143: the loop over depth_configs, from its i-th file on: the heap and
\* the address of merged_config after it
FoldFiles(h, m, group, i) ==
    IF i > Len(group) THEN [h |-> h, r |-> m]
    ELSE LET one == DeepMerge(h, m, group[i].cfg.a)
         IN  FoldFiles(one.h, one.r, group, i + 1)

\* lines 143-144: the fold of the current depth group
FoldGroup ==
    /\ pc = "depth_fold"
    /\ LET r == FoldFiles(heap, merged_config.a, depth_groups[depth], 1)
       IN  /\ heap' = r.h
           /\ merged_config' = DictRef(r.r)
    /\ folded' = folded \o [i \in 1..Len(depth_groups[depth]) |-> depth_groups[depth][i].path]
    /\ pc' = "depth_loop"
    /\ UNCHANGED <<heap0, configs, depth_groups, depths, depth,
                   all_keys_at_depth, key_sources, errors, mergeVars, findVars, pipeVars, callVars>>

\* line 146
ReturnMerged ==
    /\ pc = "depth_loop"
    /\ depths = <<>>
    /\ pc' = "depth_returned"
    /\ UNCHANGED <<heap, heap0, depthVars, mergeVars, findVars, pipeVars, callVars>>

NextDepthMachine ==
    \/ ReturnEmpty \/ GroupConfigs \/ NextDepth \/ CheckGroup \/ FoldGroup
    \/ ReturnMerged

SpecDepth == InitDepth /\ [][NextDepthMachine]_vars

\* _deep_merge on its own and inside merge_configs_by_depth
SpecMergeDepth == (InitMerge \/ InitDepth) /\ [][NextMerge \/ NextDepthMachine]_vars

\* the documents file i may hold: "flat" ones give each of some keys the
\* scalar i; "nested" ones give key "a" a non-mapping value or a mapping of at
\* most one entry, or are empty
FoldDocs(kind, i) ==
    IF kind = "flat"
    THEN { DictTree([k \in S |-> Scalar(i)]) : S \in SUBSET Keys }
    ELSE {DictTree(<<>>)} \cup
         { DictTree("a" :> v) :
             v \in Leaves(i) \cup {DictTree(<<>>)} \cup
                   { DictTree(k :> Scalar(i)) : k \in Keys } }

RECURSIVE DocSeqs(_, _, _)
\* the documents of files i..n
DocSeqs(kind, i, n) ==
    IF i > n THEN {<<>>}
    ELSE { <<t>> \o rest : t \in FoldDocs(kind, i), rest \in DocSeqs(kind, i + 1, n) }

\* configs of at most max files with documents of the given kind, each file in
\* its shallow or its deep directory
InitFold(kind, max) ==
    /\ pc = "depth_start"
    /\ \E n \in 0..max :
         \E all \in { AllocAll(<<>>, trees, 1) : trees \in DocSeqs(kind, 1, n) },
            dirs \in [1..n -> {"shallow", "deep"}] :
            /\ heap = all.h
            /\ configs = [i \in 1..n |->
                 [path |-> (IF dirs[i] = "shallow" THEN ShallowDir(i) ELSE DeepDir(i))
                           \o <<FileNames[i]>>,
                  cfg |-> all.vs[i]]]
    /\ heap0 = heap
    /\ depth_groups = <<>> /\ depths = <<>> /\ depth = 0
    /\ all_keys_at_depth = {} /\ key_sources = <<>>
    /\ merged_config = None /\ errors = <<>> /\ folded = <<>>
    /\ idleMerge /\ idleFind /\ idlePipe /\ idleCalls

InitEmission == InitFold("flat", MaxEmitFiles)

InitOverride == InitFold("nested", MaxOverrideFiles)

\* merge_configs_by_depth on files that collide in several depth groups
SpecEmission == InitEmission /\ [][NextDepthMachine]_vars

\* merge_configs_by_depth on files that give one key values of every kind
SpecOverride == InitOverride /\ [][NextDepthMachine]_vars

(***************************************************************************)
(* find_yaml_files_in_hierarchy                                            *)
(*                                                                         *)
(* A resolved path is the sequence of its components below the root "/",   *)
(* and a component or file name is the sequence of its characters, so that *)
(* str(path).startswith(...) and name.endswith(...) are computed on        *)
(* characters.  The filesystem holds no symbolic links.                    *)
(***************************************************************************)
Name_aaa == <<"a", "a", "a">>
Name_aaab == <<"a", "a", "a", "b">>
Name_aa == <<"a", "a">>
Name_zzz == <<"z", "z", "z">>
Name_x == <<"x">>
SubNames == { <<"a">>, <<"b">> }

File_c_yaml == <<"c", ".", "y", "a", "m", "l">>
File_d_yml == <<"d", ".", "y", "m", "l">>
File_e_txt == <<"e", ".", "t", "x", "t">>
File_yaml == <<"y", "a", "m", "l">>
File_f_YAML == <<"f", ".", "Y", "A", "M", "L">>
File_g_yaml_bak == <<"g", ".", "y", "a", "m", "l", ".", "b", "a", "k">>
FileNameSet == {File_c_yaml, File_d_yml, File_e_txt, File_yaml, File_f_YAML,
                File_g_yaml_bak}

BaseDir == <<Name_aaa>>

RECURSIVE RelPaths(_)
\* the component sequences over SubNames of length at most n
RelPaths(n) ==
    IF n = 0 THEN {<<>>}
    ELSE RelPaths(n - 1) \cup
         { Append(p, x) : p \in { q \in RelPaths(n - 1) : Len(q) = n - 1 }, x \in SubNames }

RECURSIVE DirTrees(_)
\* the sets of at most n directories below a directory, closed under parent
DirTrees(n) ==
    IF n = 0 THEN {{}}
    ELSE DirTrees(n - 1) \cup
         UNION { { T \cup {Append(p, x)} : p \in T \cup {<<>>}, x \in SubNames }
                 : T \in DirTrees(n - 1) }

\* the targets that are neither base nor below it: the root, a parent-less
\* sibling, and paths whose string only starts with the string of base
OutsideTargets ==
    { <<>>, <<Name_aa>>, <<Name_zzz>>, <<Name_aaab>>, <<Name_aaab, Name_x>> }

RECURSIVE Flatten(_)
Flatten(ss) == IF ss = <<>> THEN <<>> ELSE Head(ss) \o Flatten(Tail(ss))

\* str(path) of a resolved absolute path
Str(p) ==
    IF p = <<>> THEN <<"/">>
    ELSE Flatten([i \in 1..Len(p) |-> <<"/">> \o p[i]])

\* s.startswith(t)
StartsWith(s, t) == Len(t) <= Len(s) /\ SubSeq(s, 1, Len(t)) = t

\* s.endswith(t)
EndsWith(s, t) == Len(t) <= Len(s) /\ SubSeq(s, Len(s) - Len(t) + 1, Len(s)) = t

\* a name filter that takes any name ending in "yaml" or "yml"
IsYamlNameNoDot(name) ==
    EndsWith(name, <<"y", "a", "m", "l">>) \/ EndsWith(name, <<"y", "m", "l">>)

\* line 64
IsYamlName(name) ==
    EndsWith(name, <<".", "y", "a", "m", "l">>) \/ EndsWith(name, <<".", "y", "m", "l">>)

\* a relative_to that drops as many components as other has, unchecked
RelativeToUnchecked(path, other) ==
    [ok |-> Len(other) <= Len(path),
     parts |-> SubSeq(path, Len(other) + 1, Len(path))]

\* path.relative_to(other): the components of path below other, or a
\* ValueError when other is not path or one of its parents
RelativeTo(path, other) ==
    IF Len(other) <= Len(path) /\ SubSeq(path, 1, Len(other)) = other
    THEN [ok |-> TRUE, parts |-> SubSeq(path, Len(other) + 1, Len(path))]
    ELSE [ok |-> FALSE, parts |-> <<>>]

\* a scope test that compares lengths only
InScopeByLength(root_parts, tparts) == Len(root_parts) <= Len(tparts)

\* a scope test that also takes the siblings of the directories on the way
\* to the target
InScopeSiblings(root_parts, tparts) ==
    \/ Len(root_parts) = 0
    \/ /\ Len(root_parts) <= Len(tparts)
       /\ SubSeq(root_parts, 1, Len(root_parts) - 1) = SubSeq(tparts, 1, Len(root_parts) - 1)

\* lines 59-61
InScope(root_parts, tparts) ==
    \/ Len(root_parts) = 0
    \/ /\ Len(root_parts) <= Len(tparts)
       /\ root_parts = SubSeq(tparts, 1, Len(root_parts))

\* the orders in which a directory listing may give the members of S
Listings(S) ==
    { f \in [1..Cardinality(S) -> S] : \A i, j \in 1..Cardinality(S) : f[i] = f[j] => i = j }

InitFind ==
    /\ pc = "find_start"
    /\ base_dir = BaseDir
    /\ \E T \in DirTrees(MaxDirs) :
         /\ fsDirs = { BaseDir \o p : p \in T \cup {<<>>} }
         /\ \E withFiles \in SUBSET fsDirs :
              fsFiles = { <<d, n>> : d \in withFiles, n \in FileNameSet }
    /\ target_path \in { BaseDir \o p : p \in RelPaths(MaxTargetDepth) } \cup OutsideTargets
    /\ target_parts = <<>> /\ stack = <<>> /\ visited = <<>> /\ yaml_files = <<>>
    /\ raised = NoError
    /\ heap = <<>> /\ heap0 = <<>>
    /\ idleMerge /\ idleDepth /\ idlePipe /\ idleCalls

ValueError(message) == [type |-> "ValueError", message |-> message]

\* a guard that also rejects a target that is not a directory of the filesystem
GuardRejectsMissing(target, basedir) ==
    ~StartsWith(Str(target), Str(basedir)) \/ target \notin fsDirs

\* line 40: the guard rejects the target
GuardRejects(target, basedir) == ~StartsWith(Str(target), Str(basedir))

\* lines 36-43: the containment guard
CheckWithinBase ==
    /\ pc = "find_start"
    /\ IF GuardRejects(target_path, base_dir)
       THEN /\ raised' = ValueError("Target path {target_path} is not within base directory {base_dir}")
            /\ pc' = "find_raised"
       ELSE /\ raised' = raised
            /\ pc' = "find_relative"
    /\ UNCHANGED <<heap, heap0, fsDirs, fsFiles, base_dir, target_path, target_parts,
                   stack, visited, yaml_files, mergeVars, depthVars, pipeVars, callVars>>

\* lines 46-47, and the start of os.walk(base_dir)
TakeRelative ==
    /\ pc = "find_relative"
    /\ LET rel == RelativeTo(target_path, base_dir) IN
         IF rel.ok
         THEN /\ target_parts' = rel.parts
              /\ stack' = IF base_dir \in fsDirs THEN <<base_dir>> ELSE <<>>
              /\ raised' = raised
              /\ pc' = "find_walk"
         ELSE /\ raised' = ValueError("{target_path} is not in the subpath of {base_dir}")
              /\ pc' = "find_raised"
              /\ UNCHANGED <<target_parts, stack>>
    /\ UNCHANGED <<heap, heap0, fsDirs, fsFiles, base_dir, target_path,
                   visited, yaml_files, mergeVars, depthVars, pipeVars, callVars>>

\* the immediate subdirectories and files of directory d
SubDirs(d) == { e \in fsDirs : Len(e) = Len(d) + 1 /\ SubSeq(e, 1, Len(d)) = d }
FilesIn(d) == { f[2] : f \in { g \in fsFiles : g[1] = d } }

\* lines 50-65: one directory yielded by os.walk, top-down; the listing gives
\* its files and its subdirectories in some order
WalkDirectory ==
    /\ pc = "find_walk"
    /\ stack # <<>>
    /\ LET root_path == Head(stack)
           root_parts == RelativeTo(root_path, base_dir).parts
       IN  /\ \E dirs \in Listings(SubDirs(root_path)) :
                 stack' = dirs \o Tail(stack)
           /\ IF InScope(root_parts, target_parts)
              THEN \E files \in Listings({ n \in FilesIn(root_path) : IsYamlName(n) }) :
                      yaml_files' = yaml_files \o
                          [i \in 1..Len(files) |-> Append(root_path, files[i])]
              ELSE yaml_files' = yaml_files
           /\ visited' = Append(visited, root_path)
    /\ UNCHANGED <<pc, heap, heap0, fsDirs, fsFiles, base_dir, target_path,
                   target_parts, raised, mergeVars, depthVars, pipeVars, callVars>>

\* line 67
ReturnFiles ==
    /\ pc = "find_walk"
    /\ stack = <<>>
    /\ pc' = "find_returned"
    /\ UNCHANGED <<heap, heap0, findVars, mergeVars, depthVars, pipeVars, callVars>>

NextFind == CheckWithinBase \/ TakeRelative \/ WalkDirectory \/ ReturnFiles

SpecFind == InitFind /\ [][NextFind]_vars

(***************************************************************************)
(* parse_yaml_configs and merge_hierarchical_configs                       *)
(*                                                                         *)
(* A config file is unreadable (open fails), undecodable (yaml.safe_load   *)
(* fails) or holds a document, given by the tree it decodes to.            *)
(***************************************************************************)
Document(tree) == [kind |-> "document", tree |-> tree]
Undecodable == [kind |-> "undecodable"]
Unreadable == [kind |-> "unreadable"]

\* what file number i may hold: a mapping with key "a" or with key "b", an
\* empty (or null) document, a sequence, a scalar, or nothing that decodes
DocsOf(i) ==
    { Document(DictTree("a" :> Scalar(i))), Document(DictTree("b" :> Scalar(i))),
      Document(Null), Document(ListTree(<<Scalar(i)>>)), Document(Scalar(i)),
      Undecodable, Unreadable }

\* the directories of the tree, and the config files it may hold, numbered
TreeDirs == { BaseDir, BaseDir \o <<<<"a">>>>, BaseDir \o <<<<"b">>>> }
TreeFiles ==
    << <<BaseDir, File_c_yaml>>, <<BaseDir, File_d_yml>>,
       <<BaseDir \o <<<<"a">>>>, File_c_yaml>>, <<BaseDir \o <<<<"b">>>>, File_c_yaml>> >>
\* the targets: base, its two subdirectories, a directory that does not
\* exist, and two paths outside base
TreeTargets ==
    { BaseDir, BaseDir \o <<<<"a">>>>, BaseDir \o <<<<"b">>>>, BaseDir \o <<<<"a">>, Name_x>>,
      <<Name_aaab>>, <<Name_zzz>> }

RECURSIVE Join(_)
\* the string of a sequence of characters
Join(cs) == IF cs = <<>> THEN "" ELSE Head(cs) \o Join(Tail(cs))

\* str(yaml_file): the segments of the string of a resolved absolute path
PathString(p) == <<"/">> \o [i \in 1..Len(p) |-> Join(p[i])]

\* the truth value Python gives a decoded document
Truthy(tree) ==
    CASE tree.t = "dict" -> DOMAIN tree.m # {}
      [] tree.t = "list" -> tree.items # <<>>
      [] tree.t = "scalar" -> tree.v # 0
      [] OTHER -> FALSE

\* a parse that takes an empty mapping for a file it cannot decode
DecodesAlways(doc) == TRUE

\* yaml.safe_load(f) returns
Decodes(doc) == doc.kind = "document"

\* line 88: yaml.safe_load(f) or {}, of fresh objects
LoadConfig(h, doc) ==
    IF doc.kind = "document" /\ Truthy(doc.tree) THEN Alloc(h, doc.tree, KeySeq)
    ELSE NewDict(h)

\* line 91
ParseError(yaml_file) ==
    [type |-> "Exception", message |-> "Failed to parse {yaml_file}: {e}", file |-> yaml_file]

\* an unwinding that leaves the file open when the block fails
WithExitLeaks(open, f, failed) == IF failed THEN open ELSE open \ {f}

\* line 87: leaving the with block closes the file, also when the block fails
WithExit(open, f, failed) == open \ {f}

\* a test that never takes the list for empty
NoFilesFoundNever(files) == FALSE

\* line 185: not yaml_files
NoFilesFound(files) == files = <<>>

\* line 186
NoFilesDiagnostic(basedir, target) ==
    [message |-> "No YAML files found in hierarchy from {base_dir} to {target_path}",
     base |-> basedir, target |-> target]

InitPipeline ==
    /\ pc = "find_start"
    /\ base_dir = BaseDir
    /\ fsDirs = TreeDirs
    /\ \E present \in SUBSET (1..Len(TreeFiles)) :
         /\ fsFiles = { TreeFiles[i] : i \in present } \cup { <<BaseDir, File_e_txt>> }
         /\ \E docs \in [present -> UNION { DocsOf(i) : i \in present }] :
              /\ \A i \in present : docs[i] \in DocsOf(i)
              /\ fsDocs = [f \in { Append(TreeFiles[i][1], TreeFiles[i][2]) : i \in present } |->
                             docs[CHOOSE i \in present : f = Append(TreeFiles[i][1], TreeFiles[i][2])]]
    /\ target_path \in TreeTargets
    /\ target_parts = <<>> /\ stack = <<>> /\ visited = <<>> /\ yaml_files = <<>>
    /\ raised = NoError
    /\ heap = <<>> /\ heap0 = <<>>
    /\ todo = <<>> /\ parsed = <<>> /\ open_files = {} /\ opened = <<>> /\ ret = None
    /\ idleMerge /\ idleDepth /\ idleCalls

\* lines 185-186: no file was found
ReturnNoFiles ==
    /\ pc = "find_returned"
    /\ NoFilesFound(yaml_files)
    /\ LET d == NewDict(heap) IN
         /\ heap' = d.h
         /\ ret' = [config |-> d.v, errors |-> <<NoFilesDiagnostic(base_dir, target_path)>>]
    /\ pc' = "orch_returned"
    /\ UNCHANGED <<heap0, mergeVars, depthVars, findVars, fsDocs, todo, parsed,
                   open_files, opened, callVars>>

\* line 189 and line 83: parse_yaml_configs is called
CallParse ==
    /\ pc = "find_returned"
    /\ ~NoFilesFound(yaml_files)
    /\ todo' = yaml_files
    /\ parsed' = <<>>
    /\ pc' = "parse_loop"
    /\ UNCHANGED <<heap, heap0, mergeVars, depthVars, findVars, fsDocs,
                   open_files, opened, ret, callVars>>

\* lines 85-87: the next file is opened, or open fails
OpenFile ==
    /\ pc = "parse_loop"
    /\ todo # <<>>
    /\ opened' = Append(opened, Head(todo))
    /\ IF fsDocs[Head(todo)] = Unreadable
       THEN /\ raised' = ParseError(Head(todo))
            /\ pc' = "parse_raised"
            /\ open_files' = open_files
       ELSE /\ open_files' = open_files \cup {Head(todo)}
            /\ pc' = "parse_load"
            /\ raised' = raised
    /\ UNCHANGED <<heap, heap0, mergeVars, depthVars, fsDirs, fsFiles, base_dir,
                   target_path, target_parts, stack, visited, yaml_files,
                   fsDocs, todo, parsed, ret, callVars>>

\* lines 88-89: the open file is read and decoded, and its config stored
LoadFile ==
    /\ pc = "parse_load"
    /\ IF Decodes(fsDocs[Head(todo)])
       THEN LET c == LoadConfig(heap, fsDocs[Head(todo)]) IN
            /\ heap' = c.h
            /\ parsed' = Append(parsed, [path |-> PathString(Head(todo)), cfg |-> c.v])
            /\ pc' = "parse_close"
       ELSE /\ pc' = "parse_unwind"
            /\ UNCHANGED <<heap, parsed>>
    /\ UNCHANGED <<heap0, mergeVars, depthVars, findVars, fsDocs, todo,
                   open_files, opened, ret, callVars>>

\* the end of the with block of line 87, and lines 90-91 when the block failed
CloseFile ==
    /\ pc \in {"parse_close", "parse_unwind"}
    /\ open_files' = WithExit(open_files, Head(todo), pc = "parse_unwind")
    /\ IF pc = "parse_close"
       THEN /\ todo' = Tail(todo)
            /\ pc' = "parse_loop"
            /\ raised' = raised
       ELSE /\ raised' = ParseError(Head(todo))
            /\ pc' = "parse_raised"
            /\ todo' = todo
    /\ UNCHANGED <<heap, heap0, mergeVars, depthVars, fsDirs, fsFiles, base_dir,
                   target_path, target_parts, stack, visited, yaml_files,
                   fsDocs, parsed, opened, ret, callVars>>

\* line 93 and line 192: configs goes to merge_configs_by_depth
CallMergeByDepth ==
    /\ pc = "parse_loop"
    /\ todo = <<>>
    /\ configs' = parsed
    /\ heap0' = heap
    /\ pc' = "depth_start"
    /\ UNCHANGED <<heap, mergeVars, depth_groups, depths, depth, all_keys_at_depth,
                   key_sources, merged_config, errors, folded, findVars, pipeVars,
                   callVars>>

\* lines 192-194
ReturnResult ==
    /\ pc = "depth_returned"
    /\ ret' = [config |-> merged_config, errors |-> errors]
    /\ pc' = "orch_returned"
    /\ UNCHANGED <<heap, heap0, mergeVars, depthVars, findVars, fsDocs, todo,
                   parsed, open_files, opened, callVars>>

\* merge_hierarchical_configs: the three functions one after the other (a
\* configs of no file never reaches merge_configs_by_depth)
NextPipeline ==
    \/ NextFind
    \/ ReturnNoFiles \/ CallParse \/ OpenFile \/ LoadFile \/ CloseFile
    \/ CallMergeByDepth
    \/ GroupConfigs \/ NextDepth \/ CheckGroup \/ FoldGroup \/ ReturnMerged
    \/ ReturnResult

SpecPipeline == InitPipeline /\ [][NextPipeline]_vars

(***************************************************************************)
(* Calls of merge_hierarchical_configs running in parallel.  Every variable *)
(* of the module's functions is a local of the call; the calls share the   *)
(* filesystem, which does not change, and the heap on which each allocates *)
(* its objects.  A call is a record of its locals, and a step of a call is *)
(* a function of the heap and that record.                                 *)
(***************************************************************************)
CallIds == {1, 2}

\* the order in which the filesystem lists the members of S, the same at
\* every listing while the filesystem does not change
ListingOf(S) == CHOOSE f \in Listings(S) : TRUE

RECURSIVE WalkFrom(_, _, _, _)
\* lines 50-65: os.walk from the directories of stk on, top-down
WalkFrom(stk, basedir, tparts, files) ==
    IF stk = <<>> THEN files
    ELSE LET root_path == Head(stk)
             root_parts == RelativeTo(root_path, basedir).parts
             names == ListingOf({ n \in FilesIn(root_path) : IsYamlName(n) })
         IN  WalkFrom(ListingOf(SubDirs(root_path)) \o Tail(stk), basedir, tparts,
                      IF InScope(root_parts, tparts)
                      THEN files \o [i \in 1..Len(names) |-> Append(root_path, names[i])]
                      ELSE files)

\* find_yaml_files_in_hierarchy(basedir, target): the list, or the error
FindFiles(basedir, target) ==
    IF GuardRejects(target, basedir)
    THEN [raised |-> ValueError("Target path {target_path} is not within base directory {base_dir}"),
          files |-> <<>>]
    ELSE LET rel == RelativeTo(target, basedir) IN
         IF ~rel.ok
         THEN [raised |-> ValueError("{target_path} is not in the subpath of {base_dir}"),
               files |-> <<>>]
         ELSE [raised |-> NoError,
               files |-> WalkFrom(IF basedir \in fsDirs THEN <<basedir>> ELSE <<>>,
                                  basedir, rel.parts, <<>>)]

\* a list of diagnostics that every call finds and shares once one has made it
NewErrorsShared(h) ==
    LET made == { a \in 1..Len(h) : h[a].kind = "errors" }
    IN  IF made = {} THEN [h |-> Append(h, [kind |-> "errors", items |-> <<>>]), a |-> Len(h) + 1]
        ELSE [h |-> h, a |-> CHOOSE a \in made : \A b \in made : a <= b]

\* line 122: errors = [], a new list object
NewErrors(h) == [h |-> Append(h, [kind |-> "errors", items |-> <<>>]), a |-> Len(h) + 1]

\* the locals of a call that has not started
NewCall(basedir, target) ==
    [pc |-> "call_start", base_dir |-> basedir, target_path |-> target,
     yaml_files |-> <<>>, todo |-> <<>>, configs |-> <<>>, depths |-> <<>>,
     depth |-> 0, merged_config |-> None, errors |-> 0, raised |-> NoError,
     ret |-> None]

Terminal(r) == r.pc \in {"call_returned", "call_raised"}

Raise(h, r, e) == [h |-> h, r |-> [r EXCEPT !.pc = "call_raised", !.raised = e]]

\* line 183
StepFind(h, r) ==
    LET f == FindFiles(r.base_dir, r.target_path) IN
    IF f.raised # NoError THEN Raise(h, r, f.raised)
    ELSE [h |-> h, r |-> [r EXCEPT !.pc = "call_found", !.yaml_files = f.files]]

\* lines 185-189
StepFound(h, r) ==
    IF NoFilesFound(r.yaml_files)
    THEN LET d == NewDict(h)
             e == Append(d.h, [kind |-> "errors",
                               items |-> <<NoFilesDiagnostic(r.base_dir, r.target_path)>>])
         IN  [h |-> e,
              r |-> [r EXCEPT !.pc = "call_returned",
                              !.ret = [config |-> d.v, errors |-> Len(e)]]]
    ELSE [h |-> h, r |-> [r EXCEPT !.pc = "call_parse", !.todo = r.yaml_files]]

\* lines 85-93: one file opened, decoded and closed; after the last one,
\* lines 112-125
StepParse(h, r) ==
    IF r.todo = <<>>
    THEN LET d == NewDict(h)
             e == NewErrors(d.h)
         IN  [h |-> e.h,
              r |-> [r EXCEPT !.pc = "call_loop", !.merged_config = d.v, !.errors = e.a,
                              !.depths = DepthOrder(r.configs)]]
    ELSE LET yaml_file == Head(r.todo) IN
         IF fsDocs[yaml_file] = Unreadable \/ ~Decodes(fsDocs[yaml_file])
         THEN Raise(h, r, ParseError(yaml_file))
         ELSE LET c == LoadConfig(h, fsDocs[yaml_file]) IN
              [h |-> c.h,
               r |-> [r EXCEPT !.todo = Tail(r.todo),
                               !.configs = Append(r.configs,
                                   [path |-> PathString(yaml_file), cfg |-> c.v])]]

\* lines 125-140: the next depth group and its collision check, or line 146
StepLoop(h, r) ==
    IF r.depths = <<>>
    THEN [h |-> h,
          r |-> [r EXCEPT !.pc = "call_returned",
                          !.ret = [config |-> r.merged_config, errors |-> r.errors]]]
    ELSE LET d == Head(r.depths)
             group == GroupOf(r.configs, d)
             f == FreshKeys({}, <<>>)
             st == SeeFilesIn(h, [keys |-> f.keys, sources |-> f.sources,
                                  errs |-> h[r.errors].items],
                              d, KeyedPrefix(group), 1)
             h2 == [h EXCEPT ![r.errors] = [kind |-> "errors", items |-> st.errs]]
         IN  IF KeyedPrefix(group) # group THEN Raise(h2, r, AttributeError)
             ELSE [h |-> h2, r |-> [r EXCEPT !.pc = "call_fold", !.depth = d]]

\* lines 143-144: the fold of the depth group
StepFold(h, r) ==
    LET f == FoldFiles(h, r.merged_config.a, GroupOf(r.configs, r.depth), 1) IN
    [h |-> f.h,
     r |-> [r EXCEPT !.pc = "call_loop", !.merged_config = DictRef(f.r),
                     !.depths = Tail(r.depths)]]

\* the next step of a call with locals r on heap h
StepCall(h, r) ==
    CASE r.pc = "call_start" -> StepFind(h, r)
      [] r.pc = "call_found" -> StepFound(h, r)
      [] r.pc = "call_parse" -> StepParse(h, r)
      [] r.pc = "call_loop" -> StepLoop(h, r)
      [] r.pc = "call_fold" -> StepFold(h, r)

\* what file number i holds in the parallel runs
ParallelDocsOf(i) ==
    { Document(DictTree("a" :> Scalar(i))), Document(DictTree("b" :> Scalar(i))),
      Undecodable }
ParallelFiles == SubSeq(TreeFiles, 1, 3)
ParallelTargets == { BaseDir, BaseDir \o <<<<"a">>>>, <<Name_zzz>> }

\* one call, or two, over one filesystem
InitParallel ==
    /\ pc = "calls"
    /\ fsDirs = TreeDirs
    /\ \E present \in SUBSET (1..Len(ParallelFiles)) :
         /\ fsFiles = { ParallelFiles[i] : i \in present } \cup { <<BaseDir, File_e_txt>> }
         /\ \E docs \in [present -> UNION { ParallelDocsOf(i) : i \in present }] :
              /\ \A i \in present : docs[i] \in ParallelDocsOf(i)
              /\ fsDocs = [f \in { Append(ParallelFiles[i][1], ParallelFiles[i][2]) : i \in present } |->
                             docs[CHOOSE i \in present :
                                    f = Append(ParallelFiles[i][1], ParallelFiles[i][2])]]
    /\ \E ids \in { {1}, CallIds } :
         \E targets \in [ids -> ParallelTargets] :
            calls = [c \in ids |-> NewCall(BaseDir, targets[c])]
    /\ heap = <<>> /\ heap0 = <<>>
    /\ todo = <<>> /\ parsed = <<>> /\ open_files = {} /\ opened = <<>> /\ ret = None
    /\ idleMerge /\ idleDepth
    /\ base_dir = <<>> /\ target_path = <<>>
    /\ target_parts = <<>> /\ stack = <<>> /\ visited = <<>> /\ yaml_files = <<>>
    /\ raised = NoError

\* some call that has not ended takes its next step
StepOfCall ==
    /\ pc = "calls"
    /\ \E c \in DOMAIN calls :
         /\ ~Terminal(calls[c])
         /\ LET s == StepCall(heap, calls[c]) IN
              /\ heap' = s.h
              /\ calls' = [calls EXCEPT ![c] = s.r]
    /\ UNCHANGED <<pc, heap0, mergeVars, depthVars, findVars, pipeVars>>

NextParallel == StepOfCall

SpecParallel == InitParallel /\ [][NextParallel]_vars

\* the functions, each called on its own, and the whole pipeline
Init ==
    \/ InitMerge \/ InitDepth \/ InitEmission \/ InitOverride \/ InitFind
    \/ InitPipeline \/ InitParallel
Next == NextMerge \/ NextDepthMachine \/ NextPipeline \/ NextParallel
Spec == Init /\ [][Next]_vars

(***************************************************************************)
(* find_yaml_files_in_hierarchy: claims                                    *)
(***************************************************************************)
\* target is base or lies below it, component by component
IsWithin(target, basedir) ==
    Len(basedir) <= Len(target) /\ \A i \in 1..Len(basedir) : target[i] = basedir[i]

\* directory d lies on the chain from base to target
OnChain(d) ==
    /\ IsWithin(d, base_dir)
    /\ IsWithin(target_path, d)

\* the file names the function is to take, of the names that occur
YamlNames == {File_c_yaml, File_d_yml}

ReturnedFiles == { yaml_files[i] : i \in 1..Len(yaml_files) }

\* C1: for a target equal to or below base the function returns exactly the
\* .yaml and .yml files that are immediate children of a directory on the
\* chain from base to target, each once: none of a directory that diverges
\* from the target or lies below it; for target = base, those of base only.
C1_FindsExactlyChainFiles ==
    (pc = "find_returned" /\ IsWithin(target_path, base_dir)) =>
        /\ ReturnedFiles =
              { Append(f[1], f[2]) : f \in { g \in fsFiles : OnChain(g[1]) /\ g[2] \in YamlNames } }
        /\ Len(yaml_files) = Cardinality(ReturnedFiles)
        /\ target_path = base_dir =>
              \A i \in 1..Len(yaml_files) : Len(yaml_files[i]) = Len(base_dir) + 1

\* files on the chain are returned while a diverging directory and a
\* directory below the target hold .yaml files that are not
C1_Witness ==
    /\ pc = "find_returned"
    /\ Len(target_path) = Len(base_dir) + 1
    /\ Append(base_dir, File_c_yaml) \in ReturnedFiles
    /\ Append(target_path, File_d_yml) \in ReturnedFiles
    /\ \E d, e \in fsDirs :
          /\ <<d, File_c_yaml>> \in fsFiles /\ <<e, File_c_yaml>> \in fsFiles
          /\ Len(d) = Len(target_path) /\ d # target_path
          /\ Len(e) > Len(target_path) /\ IsWithin(e, target_path)
          /\ Append(d, File_c_yaml) \notin ReturnedFiles
          /\ Append(e, File_c_yaml) \notin ReturnedFiles

\* the string of target starts with the string of base, yet target is not
\* base nor below it
StringPrefixOnly ==
    /\ StartsWith(Str(target_path), Str(base_dir))
    /\ ~IsWithin(target_path, base_dir)

\* C2: for a target that only shares a string prefix with base the call
\* fails: it traverses nothing, returns no list and ends with an error.
C2_StringPrefixTargetFails ==
    StringPrefixOnly =>
        /\ pc \in {"find_start", "find_relative", "find_raised"}
        /\ visited = <<>> /\ yaml_files = <<>>
        /\ pc = "find_raised" => raised.type = "ValueError"

\* base /aaa, target /aaab/x, the call has failed
C2_Witness ==
    /\ pc = "find_raised"
    /\ base_dir = <<Name_aaa>> /\ target_path = <<Name_aaab, Name_x>>
    /\ StringPrefixOnly

\* C3: for every target that is neither base nor below it, the call fails
\* with the error of the containment guard, 'Target path {target} is not
\* within base directory {base}', before any directory is traversed.
C3_GuardRejectsEveryOutsideTarget ==
    ~IsWithin(target_path, base_dir) =>
        /\ pc \in {"find_start", "find_relative", "find_raised"}
        /\ visited = <<>> /\ yaml_files = <<>>
        /\ pc = "find_raised" =>
              raised = ValueError("Target path {target_path} is not within base directory {base_dir}")

(***************************************************************************)
(* _deep_merge: claims                                                     *)
(***************************************************************************)
Merged == pc \in {"merge_once", "merge_twice"}

\* the arguments as they were at the call, and the returned value, as trees
ATree == Val(heap0, base)
BTree == Val(heap0, override)
RTree == Val(heap, result)

RECURSIVE RefMerge(_, _)
\* the reference result, key by key
RefMerge(A, B) ==
    DictTree([k \in DOMAIN A.m \cup DOMAIN B.m |->
        IF k \notin DOMAIN B.m THEN A.m[k]
        ELSE IF k \in DOMAIN A.m /\ IsDict(A.m[k]) /\ IsDict(B.m[k])
             THEN RefMerge(A.m[k], B.m[k])
             ELSE B.m[k]])

\* _deep_merge applied to the nested mappings base[k] and override[k]
NestedMerge(k) ==
    LET r == DeepMerge(heap0, heap0[base.a].m[k].a, heap0[override.a].m[k].a)
    IN  Val(r.h, DictRef(r.r))

\* C4: _deep_merge(A, B) is the reference result: a key only in A keeps A's
\* value, a key whose values are mappings in both holds their deep merge, and
\* in every other case the value of B stands as it is.
C4_DeepMergeIsReference ==
    Merged =>
        /\ RTree = RefMerge(ATree, BTree)
        /\ DOMAIN RTree.m = DOMAIN ATree.m \cup DOMAIN BTree.m
        /\ \A k \in DOMAIN RTree.m :
              IF k \notin DOMAIN BTree.m THEN RTree.m[k] = ATree.m[k]
              ELSE IF k \in DOMAIN ATree.m /\ IsDict(ATree.m[k]) /\ IsDict(BTree.m[k])
                   THEN RTree.m[k] = NestedMerge(k)
                   ELSE RTree.m[k] = BTree.m[k]

\* a merge with a nested merge of two non-empty mappings
C4_Witness ==
    /\ pc = "merge_once"
    /\ \E k \in DOMAIN ATree.m \cap DOMAIN BTree.m :
          /\ IsDict(ATree.m[k]) /\ IsDict(BTree.m[k])
          /\ DOMAIN ATree.m[k].m # {} /\ DOMAIN BTree.m[k].m # {}
          /\ RTree.m[k] # BTree.m[k]

\* C5: merging the same override a second time changes nothing:
\* _deep_merge(_deep_merge(A, B), B) = _deep_merge(A, B).
C5_Idempotent ==
    pc = "merge_twice" => Val(heap, result2) = Val(heap, result)

\* a second merge whose override really overrode: lists on both sides of a key
C5_Witness ==
    /\ pc = "merge_twice"
    /\ \E k \in DOMAIN ATree.m \cap DOMAIN BTree.m :
          ATree.m[k].t = "list" /\ BTree.m[k].t = "list" /\ ATree.m[k] # BTree.m[k]

RECURSIVE Paths(_), At(_, _)
\* the key paths of a tree, at every nesting level
Paths(T) ==
    IF ~IsDict(T) THEN {}
    ELSE UNION { {<<k>>} \cup { <<k>> \o p : p \in Paths(T.m[k]) } : k \in DOMAIN T.m }

At(T, p) == IF p = <<>> THEN T ELSE At(T.m[Head(p)], Tail(p))

ProperPrefixes(p) == { SubSeq(p, 1, n) : n \in 1..(Len(p) - 1) }

\* B overrides no ancestor of p by a non-mapping value
NotCutByOverride(p) ==
    \A q \in ProperPrefixes(p) : q \in Paths(BTree) => IsDict(At(BTree, q))

\* C6 as stated: a path only in B has B's value in the result, and a path
\* only in A has A's value in the result.
C6_Original ==
    Merged =>
        /\ \A p \in Paths(BTree) \ Paths(ATree) :
              p \in Paths(RTree) /\ At(RTree, p) = At(BTree, p)
        /\ \A p \in Paths(ATree) \ Paths(BTree) :
              p \in Paths(RTree) /\ At(RTree, p) = At(ATree, p)

\* C6 amended: a path only in B has B's value in the result; a path only in
\* A has A's value in the result unless B gives one of its ancestors a
\* non-mapping value (which replaces the whole mapping of A).
C6_RightBiased ==
    Merged =>
        /\ \A p \in Paths(BTree) \ Paths(ATree) :
              p \in Paths(RTree) /\ At(RTree, p) = At(BTree, p)
        /\ \A p \in Paths(ATree) \ Paths(BTree) :
              NotCutByOverride(p) =>
                  p \in Paths(RTree) /\ At(RTree, p) = At(ATree, p)

\* nested paths on each side only, under a key both define as a mapping
C6_Witness ==
    /\ pc = "merge_once"
    /\ \E p \in Paths(ATree) \ Paths(BTree), q \in Paths(BTree) \ Paths(ATree) :
          /\ Len(p) = 2 /\ Len(q) = 2 /\ Head(p) = Head(q)
          /\ NotCutByOverride(p)
          /\ At(RTree, p) = At(ATree, p) /\ At(RTree, q) = At(BTree, q)

(***************************************************************************)
(* merge_configs_by_depth: claims                                          *)
(***************************************************************************)
Returned == pc = "depth_returned"

ConfigDepths == { DepthOf(configs[i].path) : i \in 1..Len(configs) }

\* the top-level mapping file c was parsed to
Parsed(c) == Val(heap0, c.cfg).m

\* the top-level keys of the mapping file c was parsed to
TopKeys(c) == DOMAIN heap0[c.cfg.a].m

\* the files of depth d that define top-level key k, in the order of configs
Definers(d, k) ==
    SelectSeq(configs, LAMBDA c : DepthOf(c.path) = d /\ k \in TopKeys(c))

\* the diagnostics about key k in depth group d, in the order of errors
ErrorsFor(d, k) == SelectSeq(errors, LAMBDA e : e.depth = d /\ e.key = k)

MergedTree == Val(heap, merged_config)

\* C7: _deep_merge leaves both its arguments as they were, nested mappings
\* and sequences included, and merge_configs_by_depth leaves every parsed
\* value of configs as it was.
C7_InputsNotMutated ==
    /\ Merged =>
         /\ Val(heap, base) = Val(heap0, base)
         /\ Val(heap, override) = Val(heap0, override)
    /\ pc \in {"depth_loop", "depth_check", "depth_fold", "depth_returned"} =>
         \A i \in 1..Len(configs) :
            Val(heap, configs[i].cfg) = Val(heap0, configs[i].cfg)

\* a merge that wrote into a nested mapping of the result
C7_Witness ==
    /\ pc = "merge_once"
    /\ base # override
    /\ \E k \in DOMAIN ATree.m \cap DOMAIN BTree.m :
          /\ IsDict(ATree.m[k]) /\ IsDict(BTree.m[k])
          /\ RTree.m[k] # ATree.m[k] /\ RTree.m[k] # BTree.m[k]

\* C8: the n files of one depth group that define top-level key k give n-1
\* diagnostics for k, one for each file after the first, in order, each
\* naming the first file as the existing source; there is no other diagnostic.
C8_CollisionsBlameFirst ==
    Returned =>
        /\ \A d \in ConfigDepths, k \in Keys :
              LET fs == Definers(d, k) IN
              ErrorsFor(d, k) =
                  [i \in 1..(Len(fs) - 1) |-> Diagnostic(d, k, fs[1].path, fs[i + 1].path)]
        /\ \A i \in 1..Len(errors) : errors[i].depth \in ConfigDepths /\ errors[i].key \in Keys

\* three files of one depth define the same key: two diagnostics
C8_Witness ==
    /\ Returned
    /\ \E d \in ConfigDepths, k \in Keys :
          Len(Definers(d, k)) = 3 /\ Len(ErrorsFor(d, k)) = 2

Max(S) == CHOOSE x \in S : \A y \in S : y <= x

\* the depths at which some file defines top-level key k
DefiningDepths(k) == { d \in ConfigDepths : Definers(d, k) # <<>> }

\* C9: a top-level key that the last file of the deepest group defining it
\* gives a non-mapping value has that value in the merged result, whatever
\* the order of the files in configs.
C9_DeepestWins ==
    Returned =>
        \A k \in Keys :
           DefiningDepths(k) # {} =>
              LET fs == Definers(Max(DefiningDepths(k)), k)
                  v == Parsed(fs[Len(fs)])[k]
              IN  ~IsDict(v) => k \in DOMAIN MergedTree.m /\ MergedTree.m[k] = v

\* configs lists a deeper file before a shallower one, both defining the key
C9_Witness ==
    /\ Returned
    /\ \E i, j \in 1..Len(configs), k \in Keys :
          /\ i < j
          /\ DepthOf(configs[i].path) > DepthOf(configs[j].path)
          /\ k \in DOMAIN Parsed(configs[i]) /\ k \in DOMAIN Parsed(configs[j])
          /\ ~IsDict(Parsed(configs[i])[k]) /\ ~IsDict(Parsed(configs[j])[k])
          /\ MergedTree.m[k] = Parsed(configs[i])[k]
          /\ MergedTree.m[k] # Parsed(configs[j])[k]

\* two files of one depth and one deeper file, all three defining key k
ScenarioB(k, d1, d2) ==
    /\ Len(configs) = 3
    /\ d1 < d2
    /\ Len(Definers(d1, k)) = 2
    /\ Len(Definers(d2, k)) = 1
    /\ ~IsDict(Parsed(Definers(d2, k)[1])[k])

RECURSIVE RefFold(_, _)
\* the left fold of the reference merge over the first n of the files fs,
\* from the empty mapping
RefFold(fs, n) ==
    IF n = 0 THEN DictTree(<<>>)
    ELSE RefMerge(RefFold(fs, n - 1), DictTree(Parsed(fs[n])))

RECURSIVE ByDepth(_)
\* the files of configs with a depth in ds, by the depths of ds (ascending)
\* and then in the order of configs
ByDepth(ds) ==
    IF ds = <<>> THEN <<>>
    ELSE SelectSeq(configs, LAMBDA c : DepthOf(c.path) = Head(ds)) \o ByDepth(Tail(ds))

InFoldOrder == ByDepth(SortedSeq(ConfigDepths))

\* the place of the file of path p in the sequence of files fs
PlaceIn(fs, p) == CHOOSE i \in 1..Len(fs) : fs[i].path = p

\* the group of depth d has a collision on key k and no deeper file defines k
CollidesLast(d, k) == Len(Definers(d, k)) >= 2 /\ d = Max(DefiningDepths(k))

\* C11 as stated: when several files of one depth group define top-level key
\* k and no deeper file does, the merged value of k is the value of k in the
\* last of them, whatever its kind, mappings included.
C11_Original ==
    Returned =>
        \A k \in Keys, d \in ConfigDepths :
           CollidesLast(d, k) =>
              LET fs == Definers(d, k)
              IN  MergedTree.m[k] = Parsed(fs[Len(fs)])[k]

\* C11 amended: in that case the merged value of k is the value of k in the
\* last of those files, deep-merged into the value the files folded before it
\* gave k when both are mappings; so it is that file's value as it stands
\* whenever that value (or the value accumulated before) is not a mapping.
C11_LastSeenMergedIn ==
    Returned =>
        \A k \in Keys, d \in ConfigDepths :
           CollidesLast(d, k) =>
              LET fs == Definers(d, k)
                  last == fs[Len(fs)]
                  v == Parsed(last)[k]
                  before == RefFold(InFoldOrder, PlaceIn(InFoldOrder, last.path) - 1)
              IN  /\ k \in DOMAIN MergedTree.m
                  /\ MergedTree.m[k] =
                        IF IsDict(v) /\ k \in DOMAIN before.m /\ IsDict(before.m[k])
                        THEN RefMerge(before.m[k], v)
                        ELSE v
                  /\ ~IsDict(v) => MergedTree.m[k] = v

\* two files of one depth collide on a key that both give a mapping: the
\* merged value holds the entries of both
C11_Witness ==
    /\ Returned
    /\ \E k \in Keys, d \in ConfigDepths :
          /\ CollidesLast(d, k)
          /\ LET fs == Definers(d, k) IN
                /\ Parsed(fs[1])[k] # Parsed(fs[2])[k]
                /\ IsDict(Parsed(fs[1])[k]) /\ IsDict(Parsed(fs[2])[k])
                /\ MergedTree.m[k] # Parsed(fs[Len(fs)])[k]

\* C12: collisions change nothing but the diagnostics: the call returns, every
\* file is folded, once, by ascending depth and then in the order of configs,
\* and the merged value is the left fold of the merge over the files in that
\* order, from the empty mapping.
C12_FoldIgnoresCollisions ==
    /\ raised = NoError
    /\ pc \in {"depth_check", "depth_fold"} => depth \in DOMAIN depth_groups
    /\ pc = "depth_loop" => Len(folded) + Len(ByDepth(depths)) = Len(configs)
    /\ Returned =>
          /\ folded = [i \in 1..Len(InFoldOrder) |-> InFoldOrder[i].path]
          /\ MergedTree = RefFold(InFoldOrder, Len(InFoldOrder))

\* a returned merge of three files in two depth groups, with a collision, the
\* deeper group listed first in configs
C12_Witness ==
    /\ Returned
    /\ Len(folded) = 3 /\ Cardinality(ConfigDepths) = 2
    /\ errors # <<>>
    /\ DepthOf(configs[1].path) > DepthOf(configs[3].path)

\* the number of components of a file path string: its segments other than
\* "." and the empty one
ComponentCount(p) == Cardinality({ i \in 1..Len(p) : p[i] \notin {".", ""} })

\* the directory of a file path, normalised
DirOf(p) == LET q == PathParts(p) IN SubSeq(q, 1, Len(q) - 1)

\* neither directory is the other or an ancestor of it
Unrelated(d, e) ==
    /\ ~(Len(d) <= Len(e) /\ SubSeq(e, 1, Len(d)) = d)
    /\ ~(Len(e) <= Len(d) /\ SubSeq(d, 1, Len(e)) = e)

\* the files of configs that define top-level key k
AllDefiners(k) == SelectSeq(configs, LAMBDA c : k \in TopKeys(c))

KeyDisjoint(g) ==
    \A i, j \in 1..Len(g) :
       i # j => DOMAIN heap[g[i].cfg.a].m \cap DOMAIN heap[g[j].cfg.a].m = {}

\* the orders in which the files of group g may be taken
Orders(g) == { [i \in 1..Len(g) |-> g[f[i]]] : f \in Listings(1..Len(g)) }

\* C17: for a depth group whose files have pairwise disjoint top-level key
\* sets, the collision check adds no diagnostic and the fold gives the same
\* merged value, whatever the order in which the group's files are taken.
C17_DisjointGroupAnyOrder ==
    [][ (pc \in {"depth_check", "depth_fold"} /\ KeyDisjoint(depth_groups[depth])) =>
           \A g \in Orders(depth_groups[depth]) :
              /\ pc = "depth_check" =>
                    /\ errors' = errors
                    /\ SeeFiles([keys |-> {}, sources |-> <<>>, errs |-> errors],
                                depth, g, 1).errs = errors
              /\ pc = "depth_fold" =>
                    LET r == FoldFiles(heap, merged_config.a, g, 1)
                    IN  Val(heap', merged_config') = Val(r.h, DictRef(r.r)) ]_vars

\* a group of two files with disjoint, non-empty key sets has been folded onto
\* a shallower file that shares a key with one of them
C17_Witness ==
    /\ pc = "depth_loop"
    /\ folded # <<>>
    /\ Len(configs) = 3 /\ Len(folded) = 3
    /\ Len(depth_groups[depth]) = 2
    /\ KeyDisjoint(depth_groups[depth])
    /\ \A i \in 1..2 : DOMAIN heap[depth_groups[depth][i].cfg.a].m # {}
    /\ errors = <<>>

RECURSIVE DictsOf(_, _)
\* the addresses of the dict objects that make up value v, at every nesting level
DictsOf(h, v) ==
    IF v.t = "dict" /\ "a" \in DOMAIN v
    THEN {v.a} \cup UNION { DictsOf(h, h[v.a].m[k]) : k \in DOMAIN h[v.a].m }
    ELSE {}

\* C20: the value _deep_merge returns is made of new mappings only: no dict
\* object of it, at any nesting level, is a dict object of base or of
\* override, so that writing into the returned value cannot change them.
C20_ResultSharesNoMapping ==
    pc = "merge_once" =>
        DictsOf(heap, result) \cap (DictsOf(heap, base) \cup DictsOf(heap, override)) = {}

(***************************************************************************)
(* merge_hierarchical_configs: claims                                      *)
(***************************************************************************)
FindPcs == {"find_start", "find_relative", "find_walk", "find_raised"}
ParsePcs == {"parse_loop", "parse_load", "parse_close", "parse_unwind", "parse_raised"}
DepthPcs ==
    {"depth_start", "depth_loop", "depth_check", "depth_fold", "depth_raised",
     "depth_returned"}

\* the call has returned the empty mapping and the one no-files diagnostic
ReturnedNoFiles ==
    /\ Val(heap, ret.config) = DictTree(<<>>)
    /\ ret.errors = <<NoFilesDiagnostic(base_dir, target_path)>>

\* C13: the call returns the empty mapping with the single diagnostic 'No YAML
\* files found ...' exactly when the scoper returned no file; then it opens
\* and parses no file, merges nothing and raises nothing; when a file was
\* found, empty or not, no returned diagnostic is that one.
C13_NoFilesDiagnosticIffNoFiles ==
    /\ pc = "orch_returned" =>
          /\ ReturnedNoFiles <=> yaml_files = <<>>
          /\ yaml_files # <<>> =>
                \A n \in 1..Len(ret.errors) :
                   ret.errors[n] # NoFilesDiagnostic(base_dir, target_path)
    /\ (pc \notin FindPcs /\ yaml_files = <<>>) =>
          /\ pc \in {"find_returned", "orch_returned"}
          /\ opened = <<>> /\ parsed = <<>> /\ configs = <<>>
          /\ merged_config = None /\ raised = NoError

\* no file in scope although a directory off the chain holds a config file
C13_Witness ==
    /\ pc = "orch_returned"
    /\ yaml_files = <<>>
    /\ ReturnedNoFiles
    /\ DOMAIN fsDocs # {}
    /\ target_path # base_dir

\* the places in yaml_files of the files that cannot be read or decoded
BadPlaces == { i \in 1..Len(yaml_files) : fsDocs[yaml_files[i]].kind # "document" }
FirstBad == CHOOSE i \in BadPlaces : \A j \in BadPlaces : i <= j

\* C14: parse_yaml_configs fails with 'Failed to parse {path}' at the first
\* file, in input order, that cannot be read or decoded; no later file is
\* opened; its partial mapping goes nowhere: no merge step runs and
\* merge_hierarchical_configs returns neither value nor diagnostics.
C14_ParseIsNonPartial ==
    /\ pc \in ParsePcs =>
          /\ Len(opened) <= Len(yaml_files)
          /\ opened = SubSeq(yaml_files, 1, Len(opened))
          /\ BadPlaces # {} => Len(opened) <= FirstBad
          /\ configs = <<>> /\ merged_config = None /\ errors = <<>> /\ ret = None
    /\ pc = "parse_raised" =>
          /\ BadPlaces # {}
          /\ Len(opened) = FirstBad
          /\ raised = ParseError(yaml_files[FirstBad])
    /\ (pc \in {"parse_loop", "parse_load", "parse_close"} /\ BadPlaces # {}) =>
          Len(parsed) < FirstBad
    /\ pc \in DepthPcs \cup {"orch_returned"} => BadPlaces = {}

\* the second of three files does not decode: the first is parsed, the third
\* never opened
C14_Witness ==
    /\ pc = "parse_raised"
    /\ Len(yaml_files) = 3 /\ FirstBad = 2
    /\ fsDocs[yaml_files[2]] = Undecodable
    /\ Len(parsed) = 1 /\ Len(opened) = 2

\* C15: with a target that is base or below it and discovered files that all
\* decode (to a mapping, a sequence, a scalar or null), the call does not
\* raise: it returns a merged value and a diagnostic list.
C15_FatalOnlyForTargetAndParse ==
    (IsWithin(target_path, base_dir) /\ pc \notin FindPcs /\ BadPlaces = {}) =>
        /\ raised = NoError
        /\ pc \notin {"parse_raised", "depth_raised"}

\* C19: at most one config file is open at any point; a file is closed
\* before the next is opened, also when its decoding failed; none is open
\* during the search for files, during the fold or after the call.
C19_OneFileOpenAtATime ==
    /\ Cardinality(open_files) <= 1
    /\ pc \in {"parse_load", "parse_close", "parse_unwind"} => open_files = {Head(todo)}
    /\ pc \notin {"parse_load", "parse_close", "parse_unwind"} => open_files = {}
    /\ \A i, j \in 1..Len(opened) : opened[i] = opened[j] => i = j

\* a file was read and closed, and the next one closed after it failed to decode
C19_Witness ==
    /\ pc = "parse_raised"
    /\ Len(opened) = 2
    /\ fsDocs[opened[1]].kind = "document"
    /\ fsDocs[opened[2]] = Undecodable
    /\ open_files = {}

(***************************************************************************)
(* Parallel calls: claims                                                  *)
(***************************************************************************)
RECURSIVE RunCall(_, _)
\* a call run to its end with no other call about
RunCall(h, r) ==
    IF Terminal(r) THEN [h |-> h, r |-> r]
    ELSE LET s == StepCall(h, r) IN RunCall(s.h, s.r)

\* what a call that has ended gives its caller: the error, or the merged
\* value and the diagnostics
Outcome(h, r) ==
    IF r.pc = "call_raised" THEN [raised |-> r.raised]
    ELSE [config |-> Val(h, r.ret.config), errors |-> h[r.ret.errors].items]

\* the outcome of the call when it runs alone, from an empty heap
AloneOutcome(r) ==
    LET s == RunCall(<<>>, NewCall(r.base_dir, r.target_path)) IN Outcome(s.h, s.r)

\* C18: however the steps of the calls interleave, a call that has ended has
\* the outcome (merged value and diagnostics, or error) it has when it runs
\* alone over the same filesystem.
C18_ParallelCallsAreIndependent ==
    \A c \in DOMAIN calls :
       Terminal(calls[c]) => Outcome(heap, calls[c]) = AloneOutcome(calls[c])

\* two calls with different targets have returned, each with a collision
\* diagnostic, each having parsed its first file before the other made its
\* merged value
C18_Witness ==
    /\ pc = "calls"
    /\ DOMAIN calls = CallIds
    /\ \A c \in CallIds : calls[c].pc = "call_returned"
    /\ calls[1].target_path # calls[2].target_path
    /\ \A c \in CallIds : Len(calls[c].configs) >= 2
    /\ \A c \in CallIds : heap[calls[c].ret.errors].items # <<>>
    /\ Outcome(heap, calls[1]) # Outcome(heap, calls[2])
    /\ calls[1].configs[1].cfg.a < calls[2].ret.config.a
    /\ calls[2].configs[1].cfg.a < calls[1].ret.config.a

(***************************************************************************)
(* merge_configs_by_depth: the order of the diagnostics                    *)
(***************************************************************************)
\* the place of key k in the traversal of the file of path p
KeyPlace(p, k) ==
    LET ks == heap0[configs[PlaceIn(configs, p)].cfg.a].ks
    IN  CHOOSE i \in 1..Len(ks) : ks[i] = k

\* diagnostic e1 is emitted before e2 in the check of their depth group: its
\* later file comes first in the group, or it is the same file and its key
\* comes first in that file
EmitBefore(e1, e2) ==
    /\ e1.depth = e2.depth
    /\ \/ PlaceIn(configs, e1.file) < PlaceIn(configs, e2.file)
       \/ /\ e1.file = e2.file
          /\ KeyPlace(e1.file, e1.key) < KeyPlace(e2.file, e2.key)

\* C21: the diagnostics are in emission order: a step only appends to the
\* list; a diagnostic appended has a depth greater than that of every
\* diagnostic already there, comes after those of its group in the traversal
\* order of the later file, and is appended while no file of its group is
\* folded; a step that folds files appends none.
C21_DiagnosticsInEmissionOrder ==
    [][ /\ Len(errors) <= Len(errors')
        /\ SubSeq(errors', 1, Len(errors)) = errors
        /\ folded' # folded => errors' = errors
        /\ \A j \in (Len(errors) + 1)..Len(errors') :
              /\ \A i \in 1..Len(errors) : errors[i].depth < errors'[j].depth
              /\ \A i \in (Len(errors) + 1)..(j - 1) : EmitBefore(errors'[i], errors'[j])
              /\ \A n \in 1..Len(folded') : DepthOf(folded'[n]) # errors'[j].depth ]_vars

\* two diagnostics of one group naming the same later file, in that file's
\* key order ("b" before "a"), followed by a diagnostic of a deeper group
C21_Witness ==
    /\ Returned
    /\ Len(errors) = 3
    /\ errors[1].depth = errors[2].depth /\ errors[1].file = errors[2].file
    /\ errors[1].key = "b" /\ errors[2].key = "a"
    /\ errors[3].depth > errors[2].depth
    /\ Len(folded) = 4

(***************************************************************************)
(* merge_configs_by_depth: a non-mapping value cuts the fold of a key      *)
(***************************************************************************)
\* the left fold of the reference merge over the files of fs from the p-th on,
\* from the empty mapping
FoldFrom(fs, p) == RefFold(SubSeq(fs, p, Len(fs)), Len(fs) - p + 1)

\* the places in fold order of the files that give key k a non-mapping value
CutPlaces(k) ==
    { p \in 1..Len(InFoldOrder) :
        k \in TopKeys(InFoldOrder[p]) /\ ~IsDict(Parsed(InFoldOrder[p])[k]) }

\* C23: when a file gives top-level key k a non-mapping value, the final value
\* of k is the one the fold of that file and the files after it gives k,
\* started from the empty mapping: nothing the earlier files put under k is
\* left, also when a later file gives k a mapping again.
C23_NonMappingCutsFold ==
    Returned =>
        \A k \in Keys : \A p \in CutPlaces(k) :
           /\ k \in DOMAIN MergedTree.m
           /\ MergedTree.m[k] = FoldFrom(InFoldOrder, p).m[k]

\* three files give key "a" a mapping with an entry, a non-mapping value and
\* a mapping again: the merged value is the third file's, without the entry
\* of the first
C23_Witness ==
    /\ Returned
    /\ Len(InFoldOrder) = 3
    /\ CutPlaces("a") = {2}
    /\ LET first == Parsed(InFoldOrder[1])
           third == Parsed(InFoldOrder[3])
       IN  /\ "a" \in DOMAIN first /\ "a" \in DOMAIN third
           /\ IsDict(first["a"]) /\ first["a"].m # <<>>
           /\ IsDict(third["a"])
           /\ DOMAIN first["a"].m \cap DOMAIN third["a"].m = {}
           /\ MergedTree.m["a"] = third["a"]

(***************************************************************************)
(* merge_hierarchical_configs: the directories in scope                    *)
(***************************************************************************)
\* the directory of a file the scoper returned
FileDir(f) == SubSeq(f, 1, Len(f) - 1)

\* the directories the returned files were taken from
ScopeDirs == { FileDir(yaml_files[i]) : i \in 1..Len(yaml_files) }

\* C22: in a run of merge_hierarchical_configs every directory a file is
\* taken from is base, target or a directory between them, so there is at most
\* one per depth; the files of one depth group lie in one directory, and every
\* collision diagnostic names two files of one directory.
C22_ScopeIsOneChain ==
    /\ \A d \in ScopeDirs : StartsWith(d, base_dir) /\ StartsWith(target_path, d)
    /\ \A d, e \in ScopeDirs : Len(d) = Len(e) => d = e
    /\ \A i, j \in 1..Len(configs) :
          DepthOf(configs[i].path) = DepthOf(configs[j].path) =>
             DirOf(configs[i].path) = DirOf(configs[j].path)
    /\ \A d \in DOMAIN depth_groups : \A i, j \in 1..Len(depth_groups[d]) :
          DirOf(depth_groups[d][i].path) = DirOf(depth_groups[d][j].path)
    /\ \A n \in 1..Len(errors) : DirOf(errors[n].existing) = DirOf(errors[n].file)

\* the target is one of two sibling directories that both hold a file; base
\* holds two files that collide; the run returns the merge of three files
C22_Witness ==
    /\ pc = "orch_returned"
    /\ Len(target_path) = Len(base_dir) + 1
    /\ target_path \in fsDirs
    /\ \E f, g \in fsFiles : f[1] # g[1] /\ Len(f[1]) = Len(target_path) /\ Len(g[1]) = Len(target_path)
    /\ Len(configs) = 3 /\ Len(folded) = 3
    /\ Len(errors) = 1
    /\ Cardinality(ScopeDirs) = 2

(***************************************************************************)
(* find_yaml_files_in_hierarchy: a target that does not exist              *)
(***************************************************************************)
\* the target lies below base and is not a directory of the filesystem
TargetAbsent == IsWithin(target_path, base_dir) /\ target_path \notin fsDirs

\* the directories of the filesystem that are base, or lie between base and
\* the target
ExistingPrefixes ==
    { d \in fsDirs : StartsWith(d, base_dir) /\ StartsWith(target_path, d) }

\* C24: for a target below base that does not exist, whether or not its
\* parent does, the call raises nothing and returns exactly the .yaml and
\* .yml files of the existing directories from base towards the target.
C24_AbsentTargetIsNoError ==
    TargetAbsent =>
        /\ pc # "find_raised"
        /\ raised = NoError
        /\ pc = "find_returned" =>
              /\ ReturnedFiles =
                    UNION { { Append(d, n) : n \in { m \in YamlNames : <<d, m>> \in fsFiles } }
                            : d \in ExistingPrefixes }
              /\ Len(yaml_files) = Cardinality(ReturnedFiles)

\* the target and its parent are both missing below an existing base: the
\* call has returned the files of base, and none of the directory beside the
\* missing parent
C24_Witness ==
    /\ pc = "find_returned"
    /\ TargetAbsent
    /\ Len(target_path) = Len(base_dir) + 2
    /\ ExistingPrefixes = {base_dir}
    /\ ReturnedFiles = {Append(base_dir, File_c_yaml), Append(base_dir, File_d_yml)}
    /\ \E d \in fsDirs : d # base_dir /\ <<d, File_c_yaml>> \in fsFiles

====
